---- MODULE Spec2Model ----
(***************************************************************************)
(* Maintenance-scheduling dashboard (irsaddirang/mtc).                     *)
(*                                                                         *)
(* The repository holds two builds of the App component:                   *)
(*   "app"  : src/src/App.tsx       (prompt login, no completion toggle)   *)
(*   "dash" : src/unnamed/part_001  (login modal, completion toggle,       *)
(*            periodic refresh, guarded edit/delete buttons)               *)
(* The variable build says which one is running; it never changes.         *)
(*                                                                         *)
(* Strings the code trims are sequences of one-character strings; ISO      *)
(* timestamps are integers (instants of an abstract clock); absent keys of *)
(* a backend row are absent from the record's DOMAIN.                      *)
(***************************************************************************)
EXTENDS Integers, Sequences, FiniteSets, TLC

(***************************************************************************)
(* Bounds of the model.                                                    *)
(***************************************************************************)
\* calls (reloads and mutating handlers) in flight at once
MaxTasks == 2
\* successful writes the backend accepts in one run
MaxWrites == 2
\* last instant of the clock
MaxTime == 1

(***************************************************************************)
(* Program constants.                                                      *)
(***************************************************************************)
\* a passcode other than the program's
OtherPasscode == "0000"
\* const PASSCODE = '6666'
PASSCODE == "6666"
LoadErrorText == "Gagal memuat data dari Supabase."
FormErrorText == "Detail pekerjaan dan nama mesin wajib diisi."
LoginErrorText == "Password salah, coba lagi."
\* setHours(9, 0, 0, 0): the instant of nine o'clock within a day
NineOClock == 1
\* instants per calendar day of the abstract clock
TicksPerDay == 2
\* the id of a row the backend holds when the page is opened
SeedId == 1
\* '' as an id (falsy in payload.id)
EmptyId == 0

Builds == {"app", "dash"}
Space == " "
Empty == << >>

(***************************************************************************)
(* String.prototype.trim                                                   *)
(***************************************************************************)
RECURSIVE TrimLeft(_)
TrimLeft(s) ==
  IF s = Empty THEN Empty
  ELSE IF Head(s) = Space THEN TrimLeft(Tail(s)) ELSE s

RECURSIVE TrimRight(_)
TrimRight(s) ==
  IF s = Empty THEN Empty
  ELSE IF s[Len(s)] = Space THEN TrimRight(SubSeq(s, 1, Len(s) - 1)) ELSE s

NoTrim(s) == s

Trim(s) == TrimRight(TrimLeft(s))

\* !formState.title.trim() || !formState.system.trim()
IsBlankDraft(f) == Trim(f.title) = Empty \/ Trim(f.system) = Empty

(***************************************************************************)
(* Records                                                                 *)
(***************************************************************************)
DraftFields ==
  {"title", "system", "owner", "environment", "status", "impact",
   "notificationsSent", "startDate", "endDate", "description"}

\* row.a ?? row.b ?? dflt, for keys a, b of a backend row
Coalesce2(row, a, b, dflt) ==
  IF a \in DOMAIN row THEN row[a]
  ELSE IF b \in DOMAIN row THEN row[b] ELSE dflt

Coalesce1(row, a, dflt) == IF a \in DOMAIN row THEN row[a] ELSE dflt

\* a normaliseEvent that reads the snake_case start key only
normaliseEventSnakeStart(row, clock) ==
  [ id                |-> Coalesce2(row, "id", "uuid", EmptyId),
    title             |-> Coalesce1(row, "title", Empty),
    system            |-> Coalesce2(row, "system", "machine", Empty),
    owner             |-> Coalesce1(row, "owner", Empty),
    environment       |-> Coalesce1(row, "environment", "Production"),
    status            |-> Coalesce1(row, "status", "Scheduled"),
    impact            |-> Coalesce1(row, "impact", "Medium"),
    notificationsSent |-> Coalesce2(row, "notifications_sent", "notificationsSent", FALSE),
    startDate         |-> Coalesce1(row, "start_date", clock),
    endDate           |-> Coalesce2(row, "end_date", "endDate",
                            Coalesce1(row, "start_date", clock)),
    description       |-> Coalesce1(row, "description", Empty),
    createdAt         |-> Coalesce2(row, "created_at", "createdAt", clock) ]

\* normaliseEvent(row), each new Date() of the object literal being a reading of the
\* clock of its own: startRead for startDate, endRead for endDate, createdRead for
\* createdAt, taken in that order
normaliseEventAt(row, startRead, endRead, createdRead) ==
  [ id                |-> Coalesce2(row, "id", "uuid", EmptyId),
    title             |-> Coalesce1(row, "title", Empty),
    system            |-> Coalesce2(row, "system", "machine", Empty),
    owner             |-> Coalesce1(row, "owner", Empty),
    environment       |-> Coalesce1(row, "environment", "Production"),
    status            |-> Coalesce1(row, "status", "Scheduled"),
    impact            |-> Coalesce1(row, "impact", "Medium"),
    notificationsSent |-> Coalesce2(row, "notifications_sent", "notificationsSent", FALSE),
    startDate         |-> Coalesce2(row, "start_date", "startDate", startRead),
    endDate           |-> Coalesce2(row, "end_date", "endDate",
                            Coalesce2(row, "start_date", "startDate", endRead)),
    description       |-> Coalesce1(row, "description", Empty),
    createdAt         |-> Coalesce2(row, "created_at", "createdAt", createdRead) ]

\* normaliseEvent(row) run within one instant of the clock
normaliseEvent(row, clock) == normaliseEventAt(row, clock, clock, clock)

\* (data ?? []).map(normaliseEvent)
NormaliseAll(data, clock) == [i \in 1..Len(data) |-> normaliseEvent(data[i], clock)]

\* base.setHours(9, 0, 0, 0); base.toISOString()
createDefaultDateISO(clock) == (clock \div TicksPerDay) * TicksPerDay + NineOClock

buildBlankDraft(clock) ==
  [ title             |-> Empty,
    system            |-> Empty,
    owner             |-> Empty,
    environment       |-> "Production",
    status            |-> "Scheduled",
    impact            |-> "Medium",
    notificationsSent |-> FALSE,
    startDate         |-> createDefaultDateISO(clock),
    endDate           |-> createDefaultDateISO(clock),
    description       |-> Empty ]

\* const { createdAt, ...rest } = event
WithoutCreatedAt(e) == [k \in (DOMAIN e) \ {"createdAt"} |-> e[k]]

\* a handleSubmit that takes every payload for a new row
NeverHasId(d) == FALSE

\* payload.id is truthy
HasId(d) == "id" \in DOMAIN d /\ d.id # EmptyId

\* key={draft.id ?? 'new'}: two drafts mount the same EventFormModal instance
SameKey(d1, d2) ==
  /\ ("id" \in DOMAIN d1) = ("id" \in DOMAIN d2)
  /\ "id" \in DOMAIN d1 => d1.id = d2.id

\* the column values handleSubmit sends with update(...) and insert(...)
SubmitValues(p) ==
  [ title              |-> p.title,
    system             |-> p.system,
    owner              |-> p.owner,
    environment        |-> p.environment,
    status             |-> p.status,
    impact             |-> p.impact,
    notifications_sent |-> p.notificationsSent,
    start_date         |-> p.startDate,
    end_date           |-> p.endDate,
    description        |-> p.description ]

\* the row the page finds in the table when it is opened
SeedRow(st) ==
  [ id                 |-> SeedId,
    title              |-> <<"a">>,
    system             |-> <<"a">>,
    owner              |-> Empty,
    environment        |-> "Production",
    status             |-> st,
    impact             |-> "Medium",
    notifications_sent |-> FALSE,
    start_date         |-> NineOClock,
    end_date           |-> NineOClock,
    description        |-> <<"a">>,
    created_at         |-> 0 ]

(***************************************************************************)
(* State                                                                   *)
(***************************************************************************)
VARIABLES
  build,            \* which App component runs
  events,           \* useState<MaintenanceEvent[]>
  isFormOpen,       \* useState(false)
  draft,            \* useState<MaintenanceDraft | null>: << >> is null, <<d>> a draft
  isAuthenticated,  \* useState(false)
  isLoading,        \* useState(true)
  isSyncing,        \* useState(false)
  errorMessage,     \* useState('')
  showLoginModal,   \* useState(false)   (dash)
  loginInput,       \* useState('')      (dash)
  loginError,       \* useState('')      (dash)
  formState,        \* EventFormModal: useState(draft); << >> while no modal is mounted
  formError,        \* EventFormModal: useState('')
  table,            \* the backend's maintenance_events rows
  nextId,           \* the id the backend gives the next inserted row
  tableVer,         \* number of writes the backend has applied
  now,              \* the clock
  tasks,            \* the asynchronous calls in flight, oldest first
  eventsVer,        \* tableVer of the snapshot that events holds (history)
  confirmedVer,     \* highest tableVer of a write whose handler has finished (history)
  trip,             \* per row id, its latest completion toggle and what undid it (history)
  rendered          \* what the last render derived from events; << >> before any render

vars ==
  << build, events, isFormOpen, draft, isAuthenticated, isLoading, isSyncing,
     errorMessage, showLoginModal, loginInput, loginError, formState, formError,
     table, nextId, tableVer, now, tasks, eventsVer, confirmedVer, trip, rendered >>

appVars == << events, isFormOpen, draft, isAuthenticated, isLoading, isSyncing, errorMessage >>
loginVars == << showLoginModal, loginInput, loginError >>
formVars == << formState, formError >>
backendVars == << table, nextId, tableVer >>
historyVars == << eventsVer, confirmedVer, trip >>

Mutating == {"handleSubmit", "handleDelete", "handleToggleComplete"}

NoValues == [none |-> TRUE]
NoRequest == [op |-> "select", id |-> EmptyId, values |-> NoValues]
NoResult == [error |-> FALSE, data |-> << >>, ver |-> 0]

\* a call of fetchEvents on its own (mount, interval)
\* Every call carries: kind (the function), pc (what it awaits: "write" and "select"
\* are requests the backend has not answered, "wrote" and "selected" answers not yet
\* delivered), req (the write it sent), res (the answer), and as history: wrote (the
\* tableVer its write produced), touched (its first statements changed errorMessage),
\* synced (the event it was clicked on was the backend's row).
FetchTask ==
  [kind |-> "fetchEvents", pc |-> "select", req |-> NoRequest, res |-> NoResult,
   wrote |-> 0, touched |-> FALSE, synced |-> FALSE]

\* a mutating handler that has sent its write
WriteTask(kind, req, touched, synced) ==
  [kind |-> kind, pc |-> "write", req |-> req, res |-> NoResult,
   wrote |-> 0, touched |-> touched, synced |-> synced]

Max(a, b) == IF a >= b THEN a ELSE b

RemoveAt(s, i) == [j \in 1..(Len(s) - 1) |-> IF j < i THEN s[j] ELSE s[j + 1]]

PendingWrites == Cardinality({i \in 1..Len(tasks) : tasks[i].pc = "write"})

\* the model's caps on a new call and on a new write
MayCall == Len(tasks) < MaxTasks
MayWrite == MayCall /\ tableVer + PendingWrites < MaxWrites

InitStatuses == {"Scheduled", "In Progress"}

Init ==
  /\ build \in Builds
  /\ events = << >>
  /\ isFormOpen = FALSE
  /\ draft = << >>
  /\ isAuthenticated = FALSE
  /\ isLoading = TRUE
  /\ isSyncing = FALSE
  /\ errorMessage = ""
  /\ showLoginModal = FALSE
  /\ loginInput = ""
  /\ loginError = ""
  /\ formState = << >>
  /\ formError = ""
  /\ \E st \in InitStatuses : table = {SeedRow(st)}
  /\ nextId = SeedId + 1
  /\ tableVer = 0
  /\ now = 0
  /\ tasks = << FetchTask >>
  /\ eventsVer = 0
  /\ confirmedVer = 0
  /\ trip = << >>
  /\ rendered = << >>

(***************************************************************************)
(* The backend (supabase.from('maintenance_events'))                       *)
(***************************************************************************)
\* .update(values).eq('id', id) on one row
PatchRow(row, values) ==
  [k \in (DOMAIN row) \cup (DOMAIN values) |->
     IF k \in DOMAIN values THEN values[k] ELSE row[k]]

\* .insert(values): the backend adds id and created_at
InsertedRow(values, id, clock) ==
  [k \in (DOMAIN values) \cup {"id", "created_at"} |->
     IF k = "id" THEN id ELSE IF k = "created_at" THEN clock ELSE values[k]]

\* a backend whose update ignores .eq('id', id) and patches every row
ApplyWriteAllRows(rows, req, id, clock) ==
  CASE req.op = "insert" -> rows \cup {InsertedRow(req.values, id, clock)}
    [] req.op = "update" -> {PatchRow(r, req.values) : r \in rows}
    [] req.op = "delete" -> {r \in rows : r.id # req.id}

ApplyWrite(rows, req, id, clock) ==
  CASE req.op = "insert" -> rows \cup {InsertedRow(req.values, id, clock)}
    [] req.op = "update" ->
         {IF r.id = req.id THEN PatchRow(r, req.values) ELSE r : r \in rows}
    [] req.op = "delete" -> {r \in rows : r.id # req.id}

\* .select('*').order('start_date', { ascending: true }): the rows in ascending
\* start_date; rows with the same start_date come in the order of their ids
Before(r1, r2) ==
  \/ r1.start_date < r2.start_date
  \/ r1.start_date = r2.start_date /\ r1.id < r2.id

OrderedSelect(rows) ==
  CHOOSE s \in [1..Cardinality(rows) -> rows] :
    \A i, j \in 1..Cardinality(rows) : i < j => Before(s[i], s[j])

\* history of the completion toggles: a toggle to Completed records the end_date and
\* status the row held before it and the end_date it wrote; the toggle back records
\* the end_date it wrote; any other write to the row forgets the record
TripAfter(t, rows) ==
  LET hit == {r \in rows : r.id = t.req.id}
      others == [k \in (DOMAIN trip) \ {t.req.id} |-> trip[k]]
  IN  IF t.req.op = "insert" \/ hit = {} THEN trip
      ELSE IF t.kind # "handleToggleComplete" THEN others
      ELSE LET r == CHOOSE x \in hit : TRUE
           IN  IF t.req.values.status = "Completed"
                 THEN (t.req.id :> [before |-> r.end_date, was |-> r.status,
                                    stamp |-> t.req.values.end_date,
                                    after |-> t.req.values.end_date,
                                    back |-> FALSE, synced |-> t.synced]) @@ others
               ELSE IF t.req.id \in DOMAIN trip /\ ~trip[t.req.id].back
                       /\ r.status = "Completed"
                 THEN [trip EXCEPT ![t.req.id].after = t.req.values.end_date,
                                   ![t.req.id].back = TRUE,
                                   ![t.req.id].synced = @ /\ t.synced]
               ELSE others

\* the backend answers a write: applied, or refused
BackendWrite(i, ok) ==
  /\ i \in 1..Len(tasks)
  /\ tasks[i].pc = "write"
  /\ IF ok
       THEN /\ table' = ApplyWrite(table, tasks[i].req, nextId, now)
            /\ trip' = TripAfter(tasks[i], table)
            /\ nextId' = IF tasks[i].req.op = "insert" THEN nextId + 1 ELSE nextId
            /\ tableVer' = tableVer + 1
            /\ tasks' = [tasks EXCEPT ![i].pc = "wrote",
                                      ![i].res = NoResult,
                                      ![i].wrote = tableVer + 1]
       ELSE /\ UNCHANGED << backendVars, trip >>
            /\ tasks' = [tasks EXCEPT ![i].pc = "wrote",
                                      ![i].res = [NoResult EXCEPT !.error = TRUE]]
  /\ UNCHANGED << build, rendered, appVars, loginVars, formVars, now, eventsVer, confirmedVer >>

\* the backend answers a select: a snapshot of the table, or an error
BackendSelect(i, ok) ==
  /\ i \in 1..Len(tasks)
  /\ tasks[i].pc = "select"
  /\ IF ok
       THEN tasks' = [tasks EXCEPT ![i].pc = "selected",
                                   ![i].res = [error |-> FALSE,
                                               data |-> OrderedSelect(table),
                                               ver |-> tableVer]]
       ELSE tasks' = [tasks EXCEPT ![i].pc = "selected",
                                   ![i].res = [NoResult EXCEPT !.error = TRUE]]
  /\ UNCHANGED << build, rendered, appVars, loginVars, formVars, backendVars, now, historyVars >>

(***************************************************************************)
(* fetchEvents                                                             *)
(***************************************************************************)
\* setIsLoading(true); setErrorMessage(''); the select is sent
FetchBegin ==
  /\ isLoading' = TRUE
  /\ errorMessage' = ""

\* a fetchEvents that empties the list when the select fails
FetchEndClearing(res) ==
  /\ isLoading' = FALSE
  /\ IF res.error
       THEN /\ errorMessage' = LoadErrorText
            /\ events' = << >>
            /\ UNCHANGED eventsVer
       ELSE /\ events' = NormaliseAll(res.data, now)
            /\ eventsVer' = res.ver
            /\ UNCHANGED errorMessage

\* the rest of fetchEvents once the select has answered
FetchEnd(res) ==
  /\ isLoading' = FALSE
  /\ IF res.error
       THEN /\ errorMessage' = LoadErrorText
            /\ UNCHANGED << events, eventsVer >>
       ELSE /\ events' = NormaliseAll(res.data, now)
            /\ eventsVer' = res.ver
            /\ UNCHANGED errorMessage

\* useEffect(() => { window.setInterval(() => fetchEvents(), 10 * 60 * 1000) })
IntervalRefresh ==
  /\ build = "dash"
  /\ MayCall
  /\ FetchBegin
  /\ tasks' = Append(tasks, FetchTask)
  /\ UNCHANGED << build, rendered, events, isFormOpen, draft, isAuthenticated, isSyncing,
                  loginVars, formVars, backendVars, now, historyVars >>

\* a fetchEvents of the mount effect or of the interval gets its answer
FetchReturns(i) ==
  /\ i \in 1..Len(tasks)
  /\ tasks[i].kind = "fetchEvents"
  /\ tasks[i].pc = "selected"
  /\ FetchEnd(tasks[i].res)
  /\ tasks' = RemoveAt(tasks, i)
  /\ UNCHANGED << build, rendered, isFormOpen, draft, isAuthenticated, isSyncing,
                  loginVars, formVars, backendVars, now, confirmedVer, trip >>

(***************************************************************************)
(* The mutating handlers: handleSubmit, handleDelete, handleToggleComplete *)
(***************************************************************************)
\* a handler without the finally block
WriteFailedStillSyncing(i) ==
  /\ i \in 1..Len(tasks)
  /\ tasks[i].kind \in Mutating
  /\ tasks[i].pc = "wrote"
  /\ tasks[i].res.error
  /\ tasks' = RemoveAt(tasks, i)
  /\ UNCHANGED << build, rendered, events, isFormOpen, draft, isAuthenticated, isLoading, isSyncing,
                  errorMessage, loginVars, formVars, backendVars, now, historyVars >>

\* the write answered with an error: catch (alert) and finally
WriteFailed(i) ==
  /\ i \in 1..Len(tasks)
  /\ tasks[i].kind \in Mutating
  /\ tasks[i].pc = "wrote"
  /\ tasks[i].res.error
  /\ isSyncing' = FALSE
  /\ tasks' = RemoveAt(tasks, i)
  /\ UNCHANGED << build, rendered, events, isFormOpen, draft, isAuthenticated, isLoading,
                  errorMessage, loginVars, formVars, backendVars, now, historyVars >>

\* a handler that is done with the write, without await fetchEvents()
WriteSucceededNoReload(i) ==
  /\ i \in 1..Len(tasks)
  /\ tasks[i].kind \in Mutating
  /\ tasks[i].pc = "wrote"
  /\ ~tasks[i].res.error
  /\ isSyncing' = FALSE
  /\ confirmedVer' = Max(confirmedVer, tasks[i].wrote)
  /\ tasks' = RemoveAt(tasks, i)
  /\ UNCHANGED << build, rendered, events, isFormOpen, draft, isAuthenticated, isLoading,
                  errorMessage, loginVars, formVars, backendVars, now, eventsVer, trip >>

\* the write answered without error: the handler goes on to await fetchEvents()
WriteSucceeded(i) ==
  /\ i \in 1..Len(tasks)
  /\ tasks[i].kind \in Mutating
  /\ tasks[i].pc = "wrote"
  /\ ~tasks[i].res.error
  /\ FetchBegin
  /\ tasks' = [tasks EXCEPT ![i].pc = "select"]
  /\ UNCHANGED << build, rendered, events, isFormOpen, draft, isAuthenticated, isSyncing,
                  loginVars, formVars, backendVars, now, historyVars >>

\* a handleSubmit that leaves the form as it is after await fetchEvents()
LeaveFormOpen == UNCHANGED << isFormOpen, draft, formState, formError >>

\* what handleSubmit does after await fetchEvents(): setIsFormOpen(false); setDraft(null)
CloseForm ==
  /\ isFormOpen' = FALSE
  /\ draft' = << >>
  /\ formState' = << >>
  /\ formError' = ""

KeepForm == UNCHANGED << isFormOpen, draft, formState, formError >>

\* the handler's reload answered: the rest of fetchEvents, the rest of the try
\* block, and finally
ReloadReturns(i) ==
  /\ i \in 1..Len(tasks)
  /\ tasks[i].kind \in Mutating
  /\ tasks[i].pc = "selected"
  /\ FetchEnd(tasks[i].res)
  /\ IF tasks[i].kind = "handleSubmit" THEN CloseForm ELSE KeepForm
  /\ isSyncing' = FALSE
  /\ confirmedVer' = Max(confirmedVer, tasks[i].wrote)
  /\ tasks' = RemoveAt(tasks, i)
  /\ UNCHANGED << build, rendered, isAuthenticated, loginVars, backendVars, now, trip >>

\* handleSubmit(payload) up to its first await
handleSubmit(payload) ==
  /\ MayWrite
  /\ isSyncing' = TRUE
  /\ errorMessage' = ""
  /\ tasks' = Append(tasks,
       WriteTask("handleSubmit",
         IF HasId(payload)
           THEN [op |-> "update", id |-> payload.id, values |-> SubmitValues(payload)]
           ELSE [op |-> "insert", id |-> EmptyId, values |-> SubmitValues(payload)],
         errorMessage # "", FALSE))
  /\ UNCHANGED << build, rendered, events, isFormOpen, draft, isAuthenticated, isLoading,
                  loginVars, formState, backendVars, now, historyVars >>

\* the rows of the list that carry the edit and delete buttons
EditableEvents ==
  IF isLoading THEN {}
  ELSE IF build = "app" THEN {events[i] : i \in 1..Len(events)}
  ELSE IF ~isAuthenticated \/ isSyncing THEN {}
  ELSE {events[i] : i \in {j \in 1..Len(events) : events[j].status # "Completed"}}

\* a handleDelete that does not wait for the answer of window.confirm
handleDeleteUnasked(e, confirmed) ==
  /\ e \in EditableEvents
  /\ MayWrite
  /\ isSyncing' = TRUE
  /\ tasks' = Append(tasks,
       WriteTask("handleDelete",
         [op |-> "delete", id |-> e.id, values |-> NoValues], FALSE, FALSE))
  /\ UNCHANGED << build, rendered, events, isFormOpen, draft, isAuthenticated, isLoading,
                  errorMessage, loginVars, formVars, backendVars, now, historyVars >>

\* handleDelete(id) with the answer of window.confirm
handleDelete(e, confirmed) ==
  /\ e \in EditableEvents
  /\ IF confirmed
       THEN /\ MayWrite
            /\ isSyncing' = TRUE
            /\ tasks' = Append(tasks,
                 WriteTask("handleDelete",
                   [op |-> "delete", id |-> e.id, values |-> NoValues], FALSE, FALSE))
       ELSE UNCHANGED << isSyncing, tasks >>
  /\ UNCHANGED << build, rendered, events, isFormOpen, draft, isAuthenticated, isLoading,
                  errorMessage, loginVars, formVars, backendVars, now, historyVars >>

\* the events that carry a completion button that is not disabled
ToggleableEvents ==
  IF build # "dash" \/ isSyncing THEN {}
  ELSE {events[i] : i \in {j \in 1..Len(events) :
                             events[j].status = "Completed" \/ ~isLoading}}

\* const nextStatus = event.status === 'Completed' ? 'Scheduled' : 'Completed'
NextStatus(e) == IF e.status = "Completed" THEN "Scheduled" ELSE "Completed"

\* a toggle that stamps end_date with the current time in both directions
ToggleEndDateStamped(e, clock) == clock

\* end_date: nextStatus === 'Completed' ? new Date().toISOString() : event.endDate
ToggleEndDate(e, clock) == IF NextStatus(e) = "Completed" THEN clock ELSE e.endDate

\* a toggle that shows the new status in the list before the backend has answered
handleToggleCompleteOptimistic(e) ==
  /\ e \in ToggleableEvents
  /\ ~isSyncing
  /\ MayWrite
  /\ isSyncing' = TRUE
  /\ events' = [i \in 1..Len(events) |->
                  IF events[i].id = e.id
                    THEN [events[i] EXCEPT !.status = NextStatus(e)] ELSE events[i]]
  /\ tasks' = Append(tasks,
       WriteTask("handleToggleComplete",
         [op |-> "update", id |-> e.id,
          values |-> [status |-> NextStatus(e), end_date |-> ToggleEndDate(e, now)]],
         FALSE, \E r \in table : normaliseEvent(r, now) = e))
  /\ UNCHANGED << build, rendered, isFormOpen, draft, isAuthenticated, isLoading,
                  errorMessage, loginVars, formVars, backendVars, now, historyVars >>

handleToggleComplete(e) ==
  /\ e \in ToggleableEvents
  /\ ~isSyncing
  /\ MayWrite
  /\ isSyncing' = TRUE
  /\ tasks' = Append(tasks,
       WriteTask("handleToggleComplete",
         [op |-> "update", id |-> e.id,
          values |-> [status |-> NextStatus(e), end_date |-> ToggleEndDate(e, now)]],
         FALSE, \E r \in table : normaliseEvent(r, now) = e))
  /\ UNCHANGED << build, rendered, events, isFormOpen, draft, isAuthenticated, isLoading,
                  errorMessage, loginVars, formVars, backendVars, now, historyVars >>

(***************************************************************************)
(* The form: openCreateModal, openEditModal, EventFormModal                *)
(***************************************************************************)
\* setDraft(d); setIsFormOpen(true): the modal mounts with useState(d), or, when a
\* modal with the same key is mounted, its effect runs setFormState(d)
OpenForm(d) ==
  /\ draft' = << d >>
  /\ isFormOpen' = TRUE
  /\ formState' = << d >>
  /\ formError' = IF isFormOpen /\ SameKey(draft[1], d) THEN formError ELSE ""

\* the "Jadwalkan Maint" button: disabled={!isAuthenticated || isSyncing}
openCreateModal ==
  /\ isAuthenticated
  /\ ~isSyncing
  /\ OpenForm(buildBlankDraft(now))
  /\ UNCHANGED << build, rendered, events, isAuthenticated, isLoading, isSyncing, errorMessage,
                  loginVars, backendVars, now, tasks, historyVars >>

openEditModal(e) ==
  /\ e \in EditableEvents
  /\ OpenForm(WithoutCreatedAt(e))
  /\ UNCHANGED << build, rendered, events, isAuthenticated, isLoading, isSyncing, errorMessage,
                  loginVars, backendVars, now, tasks, historyVars >>

\* onClose of the modal ("Tutup")
closeModal ==
  /\ isFormOpen
  /\ CloseForm
  /\ UNCHANGED << build, rendered, events, isAuthenticated, isLoading, isSyncing, errorMessage,
                  loginVars, backendVars, now, tasks, historyVars >>

\* the textarea's onChange: title and description are set together
changeTitle(v) ==
  /\ isFormOpen
  /\ formState' = << [formState[1] EXCEPT !.title = v, !.description = v] >>
  /\ UNCHANGED << build, rendered, appVars, loginVars, formError, backendVars, now, tasks, historyVars >>

\* an updateField that edits startDate like any other field
UpdatedDraftOneField(prev, field, value) == [prev EXCEPT ![field] = value]

\* updateField(field, value)
UpdatedDraft(prev, field, value) ==
  IF field = "startDate"
    THEN [prev EXCEPT !.startDate = value, !.endDate = value]
    ELSE [prev EXCEPT ![field] = value]

updateField(field, value) ==
  /\ isFormOpen
  /\ formState' = << UpdatedDraft(formState[1], field, value) >>
  /\ UNCHANGED << build, rendered, appVars, loginVars, formError, backendVars, now, tasks, historyVars >>

\* fromDateInputValue(value) for the date input's day, NoDay being its empty value
NoDay == 0 - 1
fromDateInputValue(day, clock) ==
  IF day = NoDay THEN createDefaultDateISO(clock) ELSE day * TicksPerDay + NineOClock

\* description: formState.description || formState.title
SubmitPayload(f) ==
  [f EXCEPT !.description = IF f.description # Empty THEN f.description ELSE f.title]

\* EventFormModal.handleSubmit: validation, then onSubmit(payload)
submitForm ==
  /\ isFormOpen
  /\ IF IsBlankDraft(formState[1])
       THEN /\ formError' = FormErrorText
            /\ UNCHANGED << build, rendered, appVars, loginVars, formState, backendVars, now,
                            tasks, historyVars >>
       ELSE /\ formError' = ""
            /\ handleSubmit(SubmitPayload(formState[1]))

(***************************************************************************)
(* The access gate                                                         *)
(***************************************************************************)
\* app: handleLogin with the string window.prompt returned; loginInput keeps that
\* string (the local const input), the app build having no such state
handleLoginPrompt(input) ==
  /\ build = "app"
  /\ loginInput' = input
  /\ isAuthenticated' = (isAuthenticated \/ input = PASSCODE)
  /\ UNCHANGED << build, rendered, events, isFormOpen, draft, isLoading, isSyncing, errorMessage,
                  showLoginModal, loginError, formVars, backendVars, now, tasks,
                  historyVars >>

\* dash: handleLogin opens the login modal
handleLogin ==
  /\ build = "dash"
  /\ loginInput' = ""
  /\ loginError' = ""
  /\ showLoginModal' = TRUE
  /\ UNCHANGED << build, rendered, appVars, formVars, backendVars, now, tasks, historyVars >>

\* dash: the password input's onChange
typeLogin(v) ==
  /\ build = "dash"
  /\ showLoginModal
  /\ loginInput' = v
  /\ loginError' = ""
  /\ UNCHANGED << build, rendered, appVars, showLoginModal, formVars, backendVars, now, tasks,
                  historyVars >>

\* dash: confirmLogin ("Masuk", or Enter)
confirmLogin ==
  /\ build = "dash"
  /\ showLoginModal
  /\ IF loginInput = PASSCODE
       THEN /\ isAuthenticated' = TRUE
            /\ showLoginModal' = FALSE
            /\ UNCHANGED loginError
       ELSE /\ loginError' = LoginErrorText
            /\ UNCHANGED << isAuthenticated, showLoginModal >>
  /\ UNCHANGED << build, rendered, events, isFormOpen, draft, isLoading, isSyncing, errorMessage,
                  loginInput, formVars, backendVars, now, tasks, historyVars >>

\* dash: "Batal", or Escape
cancelLogin ==
  /\ build = "dash"
  /\ showLoginModal
  /\ showLoginModal' = FALSE
  /\ UNCHANGED << build, rendered, appVars, loginInput, loginError, formVars, backendVars, now,
                  tasks, historyVars >>

(***************************************************************************)
(* The clock                                                               *)
(***************************************************************************)
Tick ==
  /\ now < MaxTime
  /\ now' = now + 1
  /\ UNCHANGED << build, rendered, appVars, loginVars, formVars, backendVars, tasks, historyVars >>

(***************************************************************************)
(* Inputs                                                                  *)
(***************************************************************************)
Candidates == {PASSCODE, "0000"}
TitleInputs == {<<Space>>, <<"a">>}
SystemInputs == {<<Space>>, <<"a">>}
DayInputs == {NoDay}
Shown == {events[i] : i \in 1..Len(events)}

Backend ==
  \E i \in 1..MaxTasks, ok \in BOOLEAN : BackendWrite(i, ok) \/ BackendSelect(i, ok)

Returns ==
  \E i \in 1..MaxTasks :
    FetchReturns(i) \/ WriteFailed(i) \/ WriteSucceeded(i) \/ ReloadReturns(i)

Rows ==
  \/ \E e \in Shown, confirmed \in BOOLEAN : handleDelete(e, confirmed)
  \/ \E e \in Shown : handleToggleComplete(e)

Gate ==
  \/ \E input \in Candidates : handleLoginPrompt(input)
  \/ handleLogin
  \/ \E v \in Candidates : typeLogin(v)
  \/ confirmLogin
  \/ cancelLogin

EditForm ==
  \/ \E e \in Shown : openEditModal(e)
  \/ closeModal
  \/ submitForm

CreateForm ==
  \/ \E input \in {PASSCODE} : handleLoginPrompt(input)
  \/ openCreateModal
  \/ closeModal
  \/ \E v \in TitleInputs : changeTitle(v)
  \/ \E v \in SystemInputs : updateField("system", v)
  \/ \E d \in DayInputs : updateField("startDate", fromDateInputValue(d, now))
  \/ submitForm

Affordances ==
  \/ openCreateModal
  \/ \E e \in Shown : openEditModal(e)
  \/ closeModal
  \/ \E e \in Shown, confirmed \in BOOLEAN : handleDelete(e, confirmed)

(***************************************************************************)
(* Specifications.  Each takes every step of the backend and of the        *)
(* handlers' continuations, and the user actions of one part of the page:  *)
(*   Spec      the event store: the list's buttons (edit, delete, toggle), *)
(*             the edit form, the periodic refresh and the clock;          *)
(*   SpecForm  the form controller: login with the passcode, the create    *)
(*             form, its field edits, validation and submit;               *)
(*   SpecGate  the access gate: every login action with right and wrong    *)
(*             candidates, and the affordances it gates;                   *)
(*   FairSpec  the steps of Spec but the clock's (no handler reads the     *)
(*             clock to decide when it ends), with every request answered  *)
(*             and every answer delivered.                                 *)
(***************************************************************************)
Next == Backend \/ Returns \/ IntervalRefresh \/ Rows \/ EditForm \/ Tick

Spec == Init /\ [][Next]_vars

NextForm == Backend \/ Returns \/ CreateForm

SpecForm == Init /\ [][NextForm]_vars

NextGate == Backend \/ Returns \/ Gate \/ Affordances

SpecGate == Init /\ [][NextGate]_vars

\* Every request is answered and every answer is delivered: the backend client
\* resolves each promise, and the event loop runs each continuation.
Fairness ==
  \A i \in 1..MaxTasks :
    /\ WF_vars(\E ok \in BOOLEAN : BackendWrite(i, ok))
    /\ WF_vars(\E ok \in BOOLEAN : BackendSelect(i, ok))
    /\ WF_vars(FetchReturns(i))
    /\ WF_vars(WriteFailed(i))
    /\ WF_vars(WriteSucceeded(i))
    /\ WF_vars(ReloadReturns(i))

NextSync == Backend \/ Returns \/ IntervalRefresh \/ Rows \/ EditForm

FairSpec == Init /\ [][NextSync]_vars /\ Fairness

(***************************************************************************)
(* The view: what a render derives from events                             *)
(***************************************************************************)
\* the quotient num / den cut down to the integer below
RoundDown(num, den) == num \div den

\* Math.round(num / den) for den > 0: the integer nearest above on a tie
Round(num, den) == (2 * num + den) \div (2 * den)

Min(a, b) == IF a <= b THEN a ELSE b

IsActive(e) == e.status # "Completed"
IsCompleted(e) == e.status = "Completed"
IsNotified(e) == e.notificationsSent

\* events.filter((event) => event.status !== 'Completed')
activeWindows(evs) == SelectSeq(evs, IsActive)

\* a coverage taken over the active events instead of all events
notificationsCoverageOfActive(evs) ==
  Round(Len(SelectSeq(evs, IsNotified)) * 100, Max(Len(SelectSeq(evs, IsActive)), 1))

\* Math.round((notified.length / Math.max(events.length, 1)) * 100)
notificationsCoverage(evs) == Round(Len(SelectSeq(evs, IsNotified)) * 100, Max(Len(evs), 1))

\* Math.round((completed.length / Math.max(events.length, 1)) * 100)
completedPercentage(evs) == Round(Len(SelectSeq(evs, IsCompleted)) * 100, Max(Len(evs), 1))

\* 78 + coverage / 5 + pct / 8 - active * 3 as a fraction over ScoreDen
ScoreDen == 40
ScoreNum(coverage, pct, active) ==
  ScoreDen * 78 + (ScoreDen \div 5) * coverage + (ScoreDen \div 8) * pct - ScoreDen * active * 3

\* Math.min(100, Math.round(78 + coverage / 5 + pct / 8 - active * 3))
ScoreOf(coverage, pct, active) == Min(100, Round(ScoreNum(coverage, pct, active), ScoreDen))

availabilityScore(evs) ==
  ScoreOf(notificationsCoverage(evs), completedPercentage(evs), Len(activeWindows(evs)))

\* [...events].sort((a, b) => time(a.startDate) - time(b.startDate)): Array.prototype.sort
\* is stable, so an event goes behind those that start no later and came before it
PlaceByStart(sorted, e) ==
  LET k == Cardinality({i \in 1..Len(sorted) : sorted[i].startDate <= e.startDate})
  IN  SubSeq(sorted, 1, k) \o << e >> \o SubSeq(sorted, k + 1, Len(sorted))

\* the list as it is held, not sorted
UnsortedEvents(evs) == evs

RECURSIVE filteredEvents(_)
filteredEvents(evs) ==
  IF evs = << >> THEN << >>
  ELSE PlaceByStart(filteredEvents(SubSeq(evs, 1, Len(evs) - 1)), evs[Len(evs)])

\* format(new Date(iso), 'yyyy-MM-dd'): the calendar day of the instant
getDateKey(iso) == iso \div TicksPerDay

\* the forEach of groupedEvents: a Map keeps its keys in insertion order
RECURSIVE GroupInto(_, _)
GroupInto(groups, rest) ==
  IF rest = << >> THEN groups
  ELSE LET e == Head(rest)
           key == getDateKey(e.startDate)
           at == {i \in 1..Len(groups) : groups[i].key = key}
       IN  GroupInto(
             IF at = {}
               THEN Append(groups, [key |-> key, label |-> e.startDate, items |-> << e >>])
               ELSE [groups EXCEPT ![CHOOSE i \in at : TRUE].items = Append(@, e)],
             Tail(rest))

\* the events groupedEvents scans: all of filteredEvents (app), the active ones (dash)
GroupedSource(b, evs) ==
  IF b = "dash" THEN SelectSeq(filteredEvents(evs), IsActive) ELSE filteredEvents(evs)

\* a grouping that scans all of filteredEvents in both builds
groupedEventsOfAll(b, evs) == GroupInto(<< >>, filteredEvents(evs))

groupedEvents(b, evs) == GroupInto(<< >>, GroupedSource(b, evs))

\* a completed collection taken from the sorted list
completedEventsSorted(evs) == SelectSeq(filteredEvents(evs), IsCompleted)

\* events.filter((event) => event.status === 'Completed')   (dash)
completedEvents(evs) == SelectSeq(evs, IsCompleted)

\* one render of App
View(b, evs) ==
  IF b = "app"
    THEN [ activeWindows         |-> activeWindows(evs),
           notificationsCoverage |-> notificationsCoverage(evs),
           completedPercentage   |-> completedPercentage(evs),
           availabilityScore     |-> availabilityScore(evs),
           filteredEvents        |-> filteredEvents(evs),
           groupedEvents         |-> groupedEvents(b, evs) ]
    ELSE [ activeWindows         |-> activeWindows(evs),
           filteredEvents        |-> filteredEvents(evs),
           groupedEvents         |-> groupedEvents(b, evs),
           completedEvents       |-> completedEvents(evs) ]

render ==
  /\ rendered' = << View(build, events) >>
  /\ UNCHANGED << build, appVars, loginVars, formVars, backendVars, now, tasks, historyVars >>

(***************************************************************************)
(* SpecView: renders of event lists.  The lists are those a load can bring *)
(* from a table that any session writes: lists of up to MaxEvents events   *)
(* of every mix of active/completed and notified/not (the counters), and   *)
(* lists of up to MaxShown events of every order of start instants up to   *)
(* MaxStart (the ordering and the grouping).                               *)
(***************************************************************************)
MaxEvents == 27
MaxShown == 3
MaxStart == 3

\* the event normaliseEvent makes of a row with these columns
SampleEvent(id, st, sent, start) ==
  normaliseEvent([SeedRow(st) EXCEPT !.id = id, !.notifications_sent = sent,
                                     !.start_date = start, !.end_date = start], 0)

\* a active and not notified, b active and notified, c completed and not notified,
\* d completed and notified
StatList(a, b, c, d) ==
  [i \in 1..(a + b + c + d) |->
     SampleEvent(i, IF i <= a + b THEN "Scheduled" ELSE "Completed",
                 (i > a /\ i <= a + b) \/ i > a + b + c, NineOClock)]

DatedList(starts, sts) ==
  [i \in DOMAIN starts |-> SampleEvent(i, sts[i], FALSE, starts[i])]

InitView ==
  /\ \/ /\ build \in Builds
        /\ \E n \in 0..MaxShown :
             \E starts \in [1..n -> 0..MaxStart], sts \in [1..n -> {"Scheduled", "Completed"}] :
               events = DatedList(starts, sts)
     \/ /\ build = "app"
        /\ \E a, b, c, d \in 0..MaxEvents :
             /\ a + b + c + d <= MaxEvents
             /\ events = StatList(a, b, c, d)
  /\ isFormOpen = FALSE
  /\ draft = << >>
  /\ isAuthenticated = FALSE
  /\ isLoading = FALSE
  /\ isSyncing = FALSE
  /\ errorMessage = ""
  /\ showLoginModal = FALSE
  /\ loginInput = ""
  /\ loginError = ""
  /\ formState = << >>
  /\ formError = ""
  /\ table = {}
  /\ nextId = SeedId + 1
  /\ tableVer = 0
  /\ now = 0
  /\ tasks = << >>
  /\ eventsVer = 0
  /\ confirmedVer = 0
  /\ trip = << >>
  /\ rendered = << >>

NextView == render

SpecView == InitView /\ [][NextView]_vars

(***************************************************************************)
(* SpecRows: the page opened on a table whose one row was written by any   *)
(* client: its start and end instants under the snake_case key, the        *)
(* camelCase key, both or neither (a null column), its description filled, *)
(* empty, of spaces or null.  The row is loaded and edited with the form.  *)
(***************************************************************************)
\* nine o'clock of the next day
LaterStart == NineOClock + TicksPerDay

Drop(row, keys) == [k \in (DOMAIN row) \ keys |-> row[k]]

StartVariants(row) ==
  { row,
    Drop(row, {"start_date"}) @@ [startDate |-> LaterStart],
    row @@ [startDate |-> LaterStart],
    Drop(row, {"start_date"}) }

EndVariants(row) ==
  { row,
    Drop(row, {"end_date"}) @@ [endDate |-> LaterStart],
    Drop(row, {"end_date"}) }

DescriptionVariants(row) ==
  { row,
    [row EXCEPT !.description = Empty],
    [row EXCEPT !.description = << Space >>],
    Drop(row, {"description"}) }

RowInputs ==
  UNION { UNION { DescriptionVariants(r2) : r2 \in EndVariants(r1) } :
            r1 \in StartVariants(SeedRow("Scheduled")) }

InitRows ==
  /\ build \in Builds
  /\ events = << >>
  /\ isFormOpen = FALSE
  /\ draft = << >>
  /\ isAuthenticated = FALSE
  /\ isLoading = TRUE
  /\ isSyncing = FALSE
  /\ errorMessage = ""
  /\ showLoginModal = FALSE
  /\ loginInput = ""
  /\ loginError = ""
  /\ formState = << >>
  /\ formError = ""
  /\ \E row \in RowInputs : table = {row}
  /\ nextId = SeedId + 1
  /\ tableVer = 0
  /\ now = 0
  /\ tasks = << FetchTask >>
  /\ eventsVer = 0
  /\ confirmedVer = 0
  /\ trip = << >>
  /\ rendered = << >>

NextRows == Backend \/ Returns \/ EditForm

SpecRows == InitRows /\ [][NextRows]_vars

(***************************************************************************)
(* SpecDates: the operations that write start and end instants of a row:   *)
(* the edit form with its date input set (emptied, or set to the next day) *)
(* and submitted, the completion toggle, and delete.  The create form      *)
(* writes its dates through the same updateField and handleSubmit.         *)
(***************************************************************************)
DateInputs == {NoDay, 1}

DatesUser ==
  \/ \E e \in Shown : openEditModal(e)
  \/ \E d \in DateInputs : updateField("startDate", fromDateInputValue(d, now))
  \/ submitForm
  \/ \E e \in Shown : handleToggleComplete(e)
  \/ \E e \in Shown : handleDelete(e, TRUE)

NextDates == Backend \/ Returns \/ DatesUser

SpecDates == Init /\ [][NextDates]_vars

(***************************************************************************)
(* SpecNorm: normaliseEvent applied to a row of any client (the rows of    *)
(* SpecRows), the clock running while the object literal is evaluated: its *)
(* readings of the clock are taken in order and none is earlier than the   *)
(* one before.                                                             *)
(***************************************************************************)
InitNorm ==
  /\ build \in Builds
  /\ events = << >>
  /\ isFormOpen = FALSE
  /\ draft = << >>
  /\ isAuthenticated = FALSE
  /\ isLoading = FALSE
  /\ isSyncing = FALSE
  /\ errorMessage = ""
  /\ showLoginModal = FALSE
  /\ loginInput = ""
  /\ loginError = ""
  /\ formState = << >>
  /\ formError = ""
  /\ \E row \in RowInputs : table = {row}
  /\ nextId = SeedId + 1
  /\ tableVer = 0
  /\ now = 0
  /\ tasks = << >>
  /\ eventsVer = 0
  /\ confirmedVer = 0
  /\ trip = << >>
  /\ rendered = << >>

\* (data ?? []).map(normaliseEvent) on the table's row; the clock stands at the last
\* reading when the call is over
normalise ==
  /\ \E row \in table :
       \E startRead, endRead, createdRead \in now..MaxTime :
         /\ startRead <= endRead
         /\ endRead <= createdRead
         /\ events' = << normaliseEventAt(row, startRead, endRead, createdRead) >>
         /\ now' = createdRead
  /\ UNCHANGED << build, rendered, isFormOpen, draft, isAuthenticated, isLoading, isSyncing,
                  errorMessage, loginVars, formVars, backendVars, tasks, historyVars >>

NextNorm == normalise

SpecNorm == InitNorm /\ [][NextNorm]_vars

(***************************************************************************)
(* SpecList: every kind of step that could reach the event list: the       *)
(* loads (mount, periodic refresh, after a write), login with the right    *)
(* passcode, the list's buttons (edit, delete, toggle), the edit form with *)
(* its title blanked or refilled, validation and submit.                   *)
(***************************************************************************)
ListUser ==
  \/ \E input \in {PASSCODE} : handleLoginPrompt(input)
  \/ \E e \in Shown : openEditModal(e)
  \/ \E v \in TitleInputs : changeTitle(v)
  \/ submitForm
  \/ \E e \in Shown : handleDelete(e, TRUE)
  \/ \E e \in Shown : handleToggleComplete(e)

NextList == Backend \/ Returns \/ IntervalRefresh \/ ListUser

SpecList == Init /\ [][NextList]_vars

(***************************************************************************)
(* SpecModes: the two ways a form is opened in App.tsx, after login: the    *)
(* create form on a blank draft and the edit form on a listed event; title *)
(* and system are typed and the form is submitted, or closed.              *)
(***************************************************************************)
ModesUser ==
  \/ \E input \in {PASSCODE} : handleLoginPrompt(input)
  \/ openCreateModal
  \/ \E e \in Shown : openEditModal(e)
  \/ \E v \in {<< "a" >>} : changeTitle(v)
  \/ \E v \in {<< "a" >>} : updateField("system", v)
  \/ submitForm
  \/ closeModal

InitModes ==
  /\ build = "app"
  /\ events = << >>
  /\ isFormOpen = FALSE
  /\ draft = << >>
  /\ isAuthenticated = FALSE
  /\ isLoading = TRUE
  /\ isSyncing = FALSE
  /\ errorMessage = ""
  /\ showLoginModal = FALSE
  /\ loginInput = ""
  /\ loginError = ""
  /\ formState = << >>
  /\ formError = ""
  /\ table = {SeedRow("Scheduled")}
  /\ nextId = SeedId + 1
  /\ tableVer = 0
  /\ now = 0
  /\ tasks = << FetchTask >>
  /\ eventsVer = 0
  /\ confirmedVer = 0
  /\ trip = << >>
  /\ rendered = << >>

NextModes == Backend \/ Returns \/ ModesUser

SpecModes == InitModes /\ [][NextModes]_vars

(***************************************************************************)
(* SpecToggle: the dash build opened on a table of two rows, one of them   *)
(* completed on a later day; the user toggles completion of either row     *)
(* while the clock runs and the periodic refresh reloads the list.         *)
(***************************************************************************)
SecondRow ==
  [SeedRow("Completed") EXCEPT !.id = SeedId + 1, !.start_date = LaterStart,
                               !.end_date = LaterStart]

InitToggle ==
  /\ build = "dash"
  /\ events = << >>
  /\ isFormOpen = FALSE
  /\ draft = << >>
  /\ isAuthenticated = FALSE
  /\ isLoading = TRUE
  /\ isSyncing = FALSE
  /\ errorMessage = ""
  /\ showLoginModal = FALSE
  /\ loginInput = ""
  /\ loginError = ""
  /\ formState = << >>
  /\ formError = ""
  /\ \E st \in InitStatuses : table = {SeedRow(st), SecondRow}
  /\ nextId = SeedId + 2
  /\ tableVer = 0
  /\ now = 0
  /\ tasks = << FetchTask >>
  /\ eventsVer = 0
  /\ confirmedVer = 0
  /\ trip = << >>
  /\ rendered = << >>

NextToggle ==
  \/ Backend
  \/ Returns
  \/ IntervalRefresh
  \/ \E e \in Shown : handleToggleComplete(e)
  \/ Tick

SpecToggle == InitToggle /\ [][NextToggle]_vars

(***************************************************************************)
(* Steps the claims speak of                                               *)
(***************************************************************************)
InFlight == 1..Len(tasks)
MutatingInFlight == {i \in InFlight : tasks[i].kind \in Mutating}

\* call i finishes in this step
Finishes(i) == i \in InFlight /\ tasks' = RemoveAt(tasks, i)

\* a call is started in this step
Starts == Len(tasks') = Len(tasks) + 1
Started == tasks'[Len(tasks')]

\* a reload's failure is handled in this step (the reload of fetchEvents alone, or the
\* reload a mutating handler awaits)
ReloadFails(i) == Finishes(i) /\ tasks[i].pc = "selected" /\ tasks[i].res.error

\* a handler's write failure is handled in this step
WriteFails(i) == Finishes(i) /\ tasks[i].pc = "wrote" /\ tasks[i].res.error

(***************************************************************************)
(* C1: at most one mutating operation (submit, delete, toggle) of the      *)
(* session is in flight at any time.                                       *)
(***************************************************************************)
C1_OneMutatingInFlight == Cardinality(MutatingInFlight) <= 1

(***************************************************************************)
(* C2: once a mutating operation has completed with its write applied, the *)
(* list in memory is a snapshot of the table taken at or after that write. *)
(***************************************************************************)
C2_ListReflectsConfirmedWrite == eventsVer >= confirmedVer

(***************************************************************************)
(* C3: a failed reload leaves the list as it was: the step that handles    *)
(* the failure keeps the event list unchanged, sets the error message and  *)
(* clears the loading flag.                                                *)
(***************************************************************************)
C3_FailedReloadKeepsList ==
  [][\A i \in 1..MaxTasks :
       ReloadFails(i) =>
         /\ events' = events
         /\ errorMessage' = LoadErrorText
         /\ isLoading' = FALSE]_vars

\* a reload failed after a list had been loaded, and the list is still there
C3_Witness ==
  /\ errorMessage = LoadErrorText
  /\ ~isLoading
  /\ events # << >>
  /\ tasks = << >>

(***************************************************************************)
(* C4: a mutating operation sets the syncing flag when it starts, clears   *)
(* it when it finishes (write failed, or reload answered either way); the  *)
(* flag is false whenever no mutating operation is in flight; and a raised *)
(* flag is eventually cleared.                                             *)
(***************************************************************************)
C4_SyncingFlagBrackets ==
  /\ [][/\ (Starts /\ Started.kind \in Mutating) => isSyncing'
        /\ \A i \in 1..MaxTasks :
             (Finishes(i) /\ tasks[i].kind \in Mutating) => ~isSyncing']_vars
  /\ [](MutatingInFlight = {} => ~isSyncing)
  /\ (isSyncing ~> ~isSyncing)

\* a write has been applied, its handler is done and the flag is down
C4_Witness ==
  /\ confirmedVer >= 1
  /\ MutatingInFlight = {}
  /\ ~isSyncing

(***************************************************************************)
(* C5: a handler whose write was applied is done only after the select of  *)
(* its reload has been sent and answered; a snapshot that reload brought   *)
(* was taken after the write.                                              *)
(***************************************************************************)
C5_ReloadBeforeDone ==
  [][\A i \in 1..MaxTasks :
       (Finishes(i) /\ tasks[i].kind \in Mutating /\ tasks[i].wrote > 0) =>
         /\ tasks[i].pc = "selected"
         /\ ~tasks[i].res.error => tasks[i].res.ver >= tasks[i].wrote]_vars

\* a handler is done, and the list is the snapshot its reload took
C5_Witness ==
  /\ confirmedVer >= 1
  /\ eventsVer = confirmedVer
  /\ tasks = << >>

(***************************************************************************)
(* C6: a failed remote write has changed no local state: the attempt did   *)
(* not touch the error message, the step that handles the failure leaves   *)
(* the list, the error message, the form-open flag and the draft as they   *)
(* are, and the syncing flag is cleared.                                   *)
(***************************************************************************)
C6_FailedWriteChangesNothing ==
  [][\A i \in 1..MaxTasks :
       WriteFails(i) =>
         /\ ~tasks[i].touched
         /\ UNCHANGED << events, errorMessage, isFormOpen, draft >>
         /\ isSyncing' = FALSE]_vars

(***************************************************************************)
(* C7: a submit of a form whose title or system holds nothing but spaces   *)
(* starts no remote call, leaves the form open and its draft as it is, and *)
(* sets the inline error; every insert or update the form issues carries a *)
(* title and a system that are not blank.                                  *)
(***************************************************************************)
OnlySpaces(s) == \A k \in 1..Len(s) : s[k] = Space

C7_BlankSubmitIsLocal ==
  /\ [][(submitForm /\ (OnlySpaces(formState[1].title) \/ OnlySpaces(formState[1].system))) =>
          /\ UNCHANGED << tasks, backendVars, draft, formState, events >>
          /\ isFormOpen'
          /\ formError' = FormErrorText]_vars
  /\ [](\A i \in InFlight :
          tasks[i].kind = "handleSubmit" =>
            /\ ~OnlySpaces(tasks[i].req.values.title)
            /\ ~OnlySpaces(tasks[i].req.values.system))

\* a form with a title of spaces was submitted and refused
C7_Witness ==
  /\ isFormOpen
  /\ formError = FormErrorText
  /\ formState[1].title = << Space >>
  /\ formState[1].system # << Space >>

(***************************************************************************)
(* C8: the form is open (create or edit) and a delete is in flight only    *)
(* while the authenticated flag is true.                                   *)
(***************************************************************************)
C8_GatedAffordances ==
  (isFormOpen \/ \E i \in InFlight : tasks[i].kind = "handleDelete") => isAuthenticated

(***************************************************************************)
(* C9: a login attempt raises the authenticated flag exactly when the      *)
(* candidate is "6666", any other candidate leaves the flag as it was, no  *)
(* other step raises it, and once raised it is never lowered.              *)
(***************************************************************************)
C9_LoginExactlyOnPasscode ==
  [][/\ \A c \in Candidates :
          handleLoginPrompt(c) => isAuthenticated' = (isAuthenticated \/ c = "6666")
     /\ confirmLogin => isAuthenticated' = (isAuthenticated \/ loginInput = "6666")
     /\ (~isAuthenticated /\ isAuthenticated') => loginInput' = "6666"
     /\ isAuthenticated => isAuthenticated']_vars

\* the flag is up after an attempt with a wrong candidate following the right one
C9_Witness ==
  /\ isAuthenticated
  /\ loginInput = "0000"

(***************************************************************************)
(* C10: a Scheduled event toggled to Completed and back, each toggle made  *)
(* on the row as the table holds it.                                       *)
(***************************************************************************)
RoundTrips ==
  {id \in DOMAIN trip : trip[id].back /\ trip[id].synced /\ trip[id].was = "Scheduled"}
RowOf(id) == CHOOSE r \in table : r.id = id

\* C10 as stated: status is Scheduled again and end_date is the value held before
\* the first toggle
C10_EndDateRestored ==
  \A id \in RoundTrips :
    /\ RowOf(id).status = "Scheduled"
    /\ RowOf(id).end_date = trip[id].before

\* C10 amended: status is Scheduled again and end_date is the completion timestamp
\* the first toggle wrote
C10_EndDateIsCompletionStamp ==
  \A id \in RoundTrips :
    /\ RowOf(id).status = "Scheduled"
    /\ RowOf(id).end_date = trip[id].stamp

\* a round trip whose completion timestamp differs from the end_date before it
C10_Witness ==
  \E id \in RoundTrips : trip[id].before # trip[id].stamp

(***************************************************************************)
(* C11: the composite health score a render shows lies in 0..100, whatever *)
(* the event list.                                                         *)
(***************************************************************************)
C11_ScoreBounded ==
  (rendered # << >> /\ build = "app") =>
    rendered[1].availabilityScore \in 0..100

(***************************************************************************)
(* C12: whenever 78 + coverage/5 + completedPct/8 - 3*activeCount lies in  *)
(* 0..100, the score a render shows is within one half of it (it is that   *)
(* value rounded to the nearest integer); coverage 50, completion 40 and   *)
(* two active windows give 87.                                             *)
(***************************************************************************)
\* forty times 78 + coverage/5 + pct/8 - 3*active
C12_Raw40(coverage, pct, active) == 40 * (78 - 3 * active) + 8 * coverage + 5 * pct

C12_Shown40 ==
  C12_Raw40(rendered[1].notificationsCoverage, rendered[1].completedPercentage,
            Len(rendered[1].activeWindows))

C12_ScoreIsRoundedFormula ==
  /\ (rendered # << >> /\ build = "app" /\ C12_Shown40 \in 0..(40 * 100)) =>
       /\ 2 * (40 * rendered[1].availabilityScore - C12_Shown40) <= 40
       /\ 2 * (C12_Shown40 - 40 * rendered[1].availabilityScore) <= 40
  /\ ScoreOf(50, 40, 2) = 87

\* a render whose formula value lies in range and more than one half above an integer
C12_Witness ==
  /\ rendered # << >>
  /\ build = "app"
  /\ C12_Shown40 \in 0..(40 * 100)
  /\ C12_Shown40 % 40 > 20
  /\ rendered[1].notificationsCoverage > 0
  /\ rendered[1].completedPercentage > 0

(***************************************************************************)
(* The grouped view, flattened                                             *)
(***************************************************************************)
RECURSIVE Flatten(_)
Flatten(groups) ==
  IF groups = << >> THEN << >> ELSE Head(groups).items \o Flatten(Tail(groups))

Elements(seq) == {seq[i] : i \in 1..Len(seq)}

\* the same elements, none missing and none twice (events differ by their ids)
SameElements(s, t) == Len(s) = Len(t) /\ Elements(s) = Elements(t)

NoneTwice(seq) == \A i, j \in 1..Len(seq) : seq[i] = seq[j] => i = j

PlaceIn(seq, e) == CHOOSE i \in 1..Len(seq) : seq[i] = e

OneStartKey(r) == ("start_date" \in DOMAIN r) # ("startDate" \in DOMAIN r)
StartCarried(r) == IF "start_date" \in DOMAIN r THEN r.start_date ELSE r.startDate

\* the list holds the snapshot of the table as it is now
ListIsCurrent == events # << >> /\ eventsVer = tableVer

C15_StartFromEitherKey ==
  ListIsCurrent =>
    \A r \in table, i \in 1..Len(events) :
      (events[i].id = r.id /\ OneStartKey(r)) => events[i].startDate = StartCarried(r)

\* a loaded row that carries its start under startDate only
C15_Witness ==
  /\ ListIsCurrent
  /\ \E r \in table :
       /\ "startDate" \in DOMAIN r
       /\ "start_date" \notin DOMAIN r
       /\ events[1].startDate = r.startDate

(***************************************************************************)
(* C16: a submit of a draft with non-blank title and system and a blank    *)
(* description sends the draft's title as the description.                 *)
(***************************************************************************)
C16_BlankDescriptionIsTitle ==
  [][(/\ submitForm
      /\ Starts
      /\ ~OnlySpaces(formState[1].title)
      /\ ~OnlySpaces(formState[1].system)
      /\ OnlySpaces(formState[1].description)) =>
        Started.req.values.description = formState[1].title]_vars

(***************************************************************************)
(* C17: when a submit whose write was applied finishes, the form is closed *)
(* and the draft is cleared; when its write failed, the handler leaves the *)
(* form open flag, the draft and the form's fields as they are.            *)
(***************************************************************************)
C17_FormAfterSubmit ==
  [][\A i \in 1..MaxTasks :
       /\ (Finishes(i) /\ tasks[i].kind = "handleSubmit" /\ tasks[i].pc = "selected") =>
            /\ isFormOpen' = FALSE
            /\ draft' = << >>
       /\ (WriteFails(i) /\ tasks[i].kind = "handleSubmit") =>
            UNCHANGED << isFormOpen, draft, formState >>]_vars

\* the first load failed, a submit cleared the error message, its write failed, and the
\* form is open on its draft
C17_Witness ==
  /\ isFormOpen
  /\ draft # << >>
  /\ ~OnlySpaces(formState[1].title)
  /\ ~OnlySpaces(formState[1].system)
  /\ tasks = << >>
  /\ ~isLoading
  /\ ~isSyncing
  /\ events = << >>
  /\ errorMessage = ""
  /\ tableVer = 0

(***************************************************************************)
(* C18: a delete issues its remote delete-by-id only when the user has     *)
(* confirmed the prompt; when the user declines, no call is started and no *)
(* state variable changes.                                                 *)
(***************************************************************************)
C18_DeleteAsksFirst ==
  [][/\ \A e \in Shown : handleDelete(e, FALSE) => UNCHANGED vars
     /\ (Starts /\ Started.kind = "handleDelete") =>
          \E e \in Shown :
            /\ handleDelete(e, TRUE)
            /\ Started.pc = "write"
            /\ Started.req = [op |-> "delete", id |-> e.id, values |-> NoValues]]_vars

\* the user confirmed, and the delete of the shown row is on its way or applied
C18_Witness ==
  \E i \in InFlight :
    /\ tasks[i].kind = "handleDelete"
    /\ tasks[i].req.op = "delete"
    /\ tasks[i].req.id = SeedId
    /\ isSyncing

(***************************************************************************)
(* C20: a toggle of a Completed event brings back the status the event had *)
(* before it was completed, Scheduled or In Progress: after a toggle to    *)
(* Completed and a toggle back, each made on the row as the table holds    *)
(* it, the row's status is the one it had before the first toggle.         *)
(***************************************************************************)
C20_StatusRestored ==
  \A id \in DOMAIN trip :
    (trip[id].back /\ trip[id].synced) => RowOf(id).status = trip[id].was

(***************************************************************************)
(* C19: with the table written by this client only, every row's end_date   *)
(* equals its start_date.                                                  *)
(***************************************************************************)
\* the backend applies the write of call i in this step
WriteApplied(i) ==
  /\ i \in InFlight
  /\ tasks[i].pc = "write"
  /\ tableVer' = tableVer + 1
  /\ Len(tasks') = Len(tasks)
  /\ tasks'[i].pc = "wrote"

DatesDiffer(r) == r.end_date # r.start_date

\* C19 as stated: no client operation, toggle-complete included, makes them differ
C19_EndEqualsStart == \A r \in table : ~DatesDiffer(r)

\* C19 amended: a form edit of startDate overwrites endDate with the same value; the
\* writes of the form and delete leave equal the dates of a row that were equal; a toggle
\* to Completed writes its own instant as end_date and the toggle back the endDate the
\* event holds; so a row's dates come to differ by a toggle only
C19_OnlyToggleSeparatesDates ==
  /\ [][(/\ formState # << >>
         /\ formState' # << >>
         /\ draft' = draft
         /\ formState'[1].startDate # formState[1].startDate) =>
           formState'[1].endDate = formState'[1].startDate]_vars
  /\ [][\A i \in 1..MaxTasks :
          WriteApplied(i) =>
            \A r2 \in table' \ table :
              DatesDiffer(r2) =>
                \/ /\ tasks[i].kind = "handleToggleComplete"
                   /\ r2.end_date = tasks[i].req.values.end_date
                \/ \E r \in table : r.id = r2.id /\ DatesDiffer(r)]_vars

\* the form moved the row to the next day, and the list shows it
C19_Witness ==
  /\ \E r \in table : r.start_date = LaterStart /\ r.end_date = LaterStart
  /\ ListIsCurrent
  /\ events[1].startDate = LaterStart
  /\ events[1].endDate = LaterStart

(***************************************************************************)
(* C21: a completion toggle sends one update of the clicked event's id     *)
(* with the columns status and end_date only; end_date is the current      *)
(* instant when the event goes to Completed and the event's own endDate    *)
(* when it leaves Completed; the write, once applied, changes those two    *)
(* columns of that row and nothing else of the table.                      *)
(***************************************************************************)
C21_ToggleWritesTwoColumns ==
  /\ [][\A e \in Shown :
          handleToggleComplete(e) =>
            /\ Starts
            /\ Started.req.op = "update"
            /\ Started.req.id = e.id
            /\ DOMAIN Started.req.values = {"status", "end_date"}
            /\ e.status # "Completed" =>
                 /\ Started.req.values.status = "Completed"
                 /\ Started.req.values.end_date = now
            /\ e.status = "Completed" =>
                 /\ Started.req.values.status # "Completed"
                 /\ Started.req.values.end_date = e.endDate]_vars
  /\ [][\A i \in 1..MaxTasks :
          (WriteApplied(i) /\ tasks[i].kind = "handleToggleComplete") =>
            /\ {r.id : r \in table'} = {r.id : r \in table}
            /\ Cardinality(table') = Cardinality(table)
            /\ \A r \in table, r2 \in table' :
                 r2.id = r.id =>
                   /\ DOMAIN r2 = DOMAIN r
                   /\ \A k \in (DOMAIN r) \ {"status", "end_date"} : r2[k] = r[k]
                   /\ IF r.id = tasks[i].req.id
                        THEN /\ r2.status = tasks[i].req.values.status
                             /\ r2.end_date = tasks[i].req.values.end_date
                        ELSE r2 = r]_vars

\* both rows toggled: the first completed at an instant that is not its start, the
\* second brought back with the end_date it held
C21_Witness ==
  /\ tableVer = 2
  /\ \E r \in table :
       /\ r.id = SeedId
       /\ r.status = "Completed"
       /\ r.end_date # r.start_date
       /\ [r EXCEPT !.status = "Scheduled", !.end_date = NineOClock] = SeedRow("Scheduled")
  /\ \E r \in table :
       /\ r.id = SeedId + 1
       /\ r.status = "Scheduled"
       /\ [r EXCEPT !.status = "Completed"] = SecondRow

(***************************************************************************)
(* C22: a row with neither end_date nor endDate is normalised to an event  *)
(* whose endDate equals its startDate, also when the row has neither       *)
(* start_date nor startDate and both come from the clock.                  *)
(***************************************************************************)
NoEndKey(r) == "end_date" \notin DOMAIN r /\ "endDate" \notin DOMAIN r

C22_EndDefaultsToStart ==
  \A r \in table, i \in 1..Len(events) :
    (events[i].id = r.id /\ NoEndKey(r)) => events[i].endDate = events[i].startDate

(***************************************************************************)
(* C23: the event list changes only in a step in which a reload delivers   *)
(* its answer without error, and that step sets the list to the normalised *)
(* rows of the answer; every other step (submit, delete, toggle, login,    *)
(* form edit, refused submit, failed write, failed reload) leaves it.      *)
(***************************************************************************)
\* a reload's answer without error is delivered in this step
ReloadSucceeds(i) == Finishes(i) /\ tasks[i].pc = "selected" /\ ~tasks[i].res.error

C23_ListChangesOnReloadOnly ==
  [][/\ events' # events => \E i \in 1..MaxTasks : ReloadSucceeds(i)
     /\ \A i \in 1..MaxTasks :
          ReloadSucceeds(i) => events' = NormaliseAll(tasks[i].res.data, now)]_vars

\* the list is the snapshot a reload brought after a write; since then a submit was
\* refused by the validation and a later reload failed
C23_Witness ==
  /\ eventsVer >= 1
  /\ events # << >>
  /\ isAuthenticated
  /\ isFormOpen
  /\ formError = FormErrorText
  /\ errorMessage = LoadErrorText
  /\ tableVer > eventsVer

(***************************************************************************)
(* C24: the loading flag is up in every state in which a reload is in      *)
(* flight (the load of the mount, a periodic refresh, the reload after a   *)
(* write), and down in every state in which none is.                       *)
(***************************************************************************)
\* the calls whose select is sent and whose fetchEvents has not gone on yet
ReloadsInFlight == {i \in InFlight : tasks[i].pc \in {"select", "selected"}}

C24_LoadingWhileReloading == isLoading <=> ReloadsInFlight # {}

(***************************************************************************)
(* C25: the edit form is opened on a draft that carries the event's id and *)
(* the create form on a draft without id; a submit that passes validation  *)
(* starts exactly one write carrying the ten columns of the form's fields: *)
(* from an edit form an update of the id the form was opened on, never an  *)
(* insert; from a create form an insert without id.                        *)
(***************************************************************************)
\* the form was opened by openEditModal: its draft carries an id
EditMode == draft # << >> /\ "id" \in DOMAIN draft[1]

TenColumns ==
  {"title", "system", "owner", "environment", "status", "impact",
   "notifications_sent", "start_date", "end_date", "description"}

\* the write carries the form's fields, the description being the title when empty
CarriesForm(req, f) ==
  /\ DOMAIN req.values = TenColumns
  /\ req.values.title = f.title
  /\ req.values.system = f.system
  /\ req.values.owner = f.owner
  /\ req.values.environment = f.environment
  /\ req.values.status = f.status
  /\ req.values.impact = f.impact
  /\ req.values.notifications_sent = f.notificationsSent
  /\ req.values.start_date = f.startDate
  /\ req.values.end_date = f.endDate
  /\ req.values.description = IF f.description = Empty THEN f.title ELSE f.description

C25_SubmitFollowsMode ==
  [][/\ \A e \in Shown :
          openEditModal(e) => (e.id # EmptyId /\ draft'[1].id = e.id)
     /\ openCreateModal => "id" \notin DOMAIN draft'[1]
     /\ (isFormOpen /\ isFormOpen' /\ draft' = draft) => SameKey(formState[1], formState'[1])
     /\ (submitForm /\ ~IsBlankDraft(formState[1])) =>
          /\ Starts
          /\ Started.kind = "handleSubmit"
          /\ Started.pc = "write"
          /\ CarriesForm(Started.req, formState[1])
          /\ IF EditMode
               THEN Started.req.op = "update" /\ Started.req.id = draft[1].id
               ELSE Started.req.op = "insert" /\ Started.req.id = EmptyId]_vars

\* a create form's insert has been applied and an edit form's update of the first
\* row is on its way
C25_Witness ==
  /\ \E r \in table : r.id = SeedId + 1
  /\ EditMode
  /\ \E i \in InFlight :
       /\ tasks[i].kind = "handleSubmit"
       /\ tasks[i].req.op = "update"
       /\ tasks[i].req.id = SeedId
       /\ tasks[i].pc = "write"

(***************************************************************************)
(* C26: in the build that lists completed work apart, every event of the   *)
(* list is in exactly one of the two collections and once: in the groups   *)
(* by day exactly when its status is not Completed, in the completed       *)
(* collection exactly when it is; neither collection holds anything else;  *)
(* the completed collection is in the order of the list.                   *)
(***************************************************************************)
C26_ViewsPartitionTheList ==
  (rendered # << >> /\ build = "dash") =>
    LET grouped == Flatten(rendered[1].groupedEvents)
        completed == rendered[1].completedEvents
    IN  /\ NoneTwice(grouped)
        /\ NoneTwice(completed)
        /\ Elements(grouped) \cup Elements(completed) = Elements(events)
        /\ Elements(grouped) \cap Elements(completed) = {}
        /\ \A e \in Elements(events) :
             /\ e \in Elements(grouped) <=> e.status # "Completed"
             /\ e \in Elements(completed) <=> e.status = "Completed"
        /\ \A i, j \in 1..Len(completed) :
             i < j => PlaceIn(events, completed[i]) < PlaceIn(events, completed[j])

\* a render of a list that holds two completed events, the later one first, and an
\* active one
C26_Witness ==
  /\ rendered # << >>
  /\ build = "dash"
  /\ Len(rendered[1].completedEvents) = 2
  /\ rendered[1].completedEvents[1].startDate > rendered[1].completedEvents[2].startDate
  /\ Len(Flatten(rendered[1].groupedEvents)) = 1

(***************************************************************************)
(* C27: for every event list the two percentages a render shows are        *)
(* integers in 0..100, each within one half of 100 * k / n, n being the    *)
(* number of events and k the number of them that are notified,            *)
(* respectively Completed; for the empty list both are 0.                  *)
(***************************************************************************)
\* the events of the list that are notified, and those that are Completed
NotifiedOnes == {i \in 1..Len(events) : events[i].notificationsSent}
CompletedOnes == {i \in 1..Len(events) : events[i].status = "Completed"}

\* p is 100 * k / n rounded to a nearest integer
IsRoundedPercentage(p, k, n) ==
  /\ p \in 0..100
  /\ 2 * (p * n - 100 * k) <= n
  /\ 2 * (100 * k - p * n) <= n

C27_PercentagesRounded ==
  (rendered # << >> /\ build = "app") =>
    /\ IsRoundedPercentage(rendered[1].notificationsCoverage, Cardinality(NotifiedOnes), Len(events))
    /\ IsRoundedPercentage(rendered[1].completedPercentage, Cardinality(CompletedOnes), Len(events))
    /\ events = << >> =>
         /\ rendered[1].notificationsCoverage = 0
         /\ rendered[1].completedPercentage = 0

\* a render of three events, one of them notified (33) and two completed (67)
C27_Witness ==
  /\ rendered # << >>
  /\ build = "app"
  /\ Len(events) = 3
  /\ rendered[1].notificationsCoverage = 33
  /\ rendered[1].completedPercentage = 67

(***************************************************************************)
(* C28: a submit that succeeds closes the form it came from only.  A form  *)
(* keeps the key it was opened with (create, or edit of an id), and a      *)
(* submit writes under the key of its form, so a form open with another    *)
(* key when the submit finishes was opened after the submit started: the   *)
(* finishing submit leaves such a form open and its draft as it is.        *)
(***************************************************************************)
\* the key of the form a handleSubmit call came from: an insert from a create form,
\* an update from the edit form of its id
CameFromOpenForm(t) ==
  IF t.req.op = "insert" THEN ~EditMode
  ELSE EditMode /\ draft[1].id = t.req.id

C28_SubmitClosesItsOwnForm ==
  [][\A i \in 1..MaxTasks :
       (/\ Finishes(i)
        /\ tasks[i].kind = "handleSubmit"
        /\ isFormOpen
        /\ ~CameFromOpenForm(tasks[i])) =>
          UNCHANGED << isFormOpen, draft >>]_vars

(***************************************************************************)
(* C29: a create form that is submitted while an insert submitted from a   *)
(* create form is still in flight starts no second insert, so that one     *)
(* opened create form adds at most one row.                                *)
(***************************************************************************)
\* the inserts of handleSubmit calls that have not finished
InsertsInFlight ==
  {i \in InFlight : tasks[i].kind = "handleSubmit" /\ tasks[i].req.op = "insert"}

C29_OneInsertPerCreateForm ==
  [][(submitForm /\ ~EditMode /\ InsertsInFlight # {}) =>
        ~(Starts /\ Started.req.op = "insert")]_vars

(***************************************************************************)
(* C30: the load-error message follows the reload that completed last: the *)
(* step that delivers a reload's failure shows the message, and after the  *)
(* step that delivers a reload's answer without error, no other reload     *)
(* being in flight, the message is empty, also when reloads overlapped.    *)
(***************************************************************************)
C30_ErrorFollowsLastReload ==
  [][\A i \in 1..MaxTasks :
       /\ ReloadFails(i) => errorMessage' = LoadErrorText
       /\ (ReloadSucceeds(i) /\ ReloadsInFlight' = {}) => errorMessage' = ""]_vars

====
